---- MODULE Spec2Model ----
(***************************************************************************)
(* A model of app.py, the Zero1 RAG assistant: the Drive indexing pass     *)
(* (index_drive_docs), the web indexing pass (fetch_and_index_web), the    *)
(* retrieval step (get_relevant_docs) and the answer path                  *)
(* (chat_with_context), over the session ledger (indexed_chunks,           *)
(* chunk_texts) and the Pinecone index.                                    *)
(*                                                                         *)
(* The program is single threaded: one call runs at a time, and pc is its  *)
(* position.  A remote call that raises ends the running call, because the *)
(* source has no try/except anywhere: outcome becomes "raised" and failure *)
(* names the call that raised.  When a call is over its locals are gone;   *)
(* what the session keeps is the index, the ledger and the stored texts.   *)
(*                                                                         *)
(* The remote services are taken as follows.  An upsert that raises has    *)
(* not stored its record.  The folder lists the same two documents in two  *)
(* pages; the text of F1 changes between calls, the text of F2 does not.   *)
(* index.query returns the top_k ids of the index in the similarity order  *)
(* of the query, Ranking.  chunk_size is the same in every call of a       *)
(* session.                                                                *)
(***************************************************************************)
EXTENDS Integers, Sequences, FiniteSets, TLC

\* ------------------------------------------------------------------ bounds

\* Longest extracted text of a Drive document, in characters.
MaxLen == 2
\* How many times the content of the Drive folder changes in a session.
MaxEdits == 1
\* Longest text of the chunking loop taken alone (SpecChunk).
MaxChunkText == 7
\* Largest chunk_size of the chunking loop taken alone (SpecChunk).
MaxChunkStep == 3

\* ------------------------------------------------------- program constants

\* fetch_and_index_web's default top_k.
WebTopK == 3
\* get_relevant_docs' default top_k.
RetrieveTopK == 5

\* --------------------------------------------------------------- the inputs

Chars == {"a", "b"}

SeqsUpTo(S, n) == UNION {[1..m -> S] : m \in 0..n}

Texts == SeqsUpTo(Chars, MaxLen)

\* One listing of the shared folder, as the pages files().list returns.
Pages == << <<"F1">>, <<"F2">> >>

Files == {"F1", "F2"}

FileName(f) == IF f = "F1" THEN "Strategy.pdf" ELSE "Notes"

\* chunk_size values: negative, zero, and positive up to one chunk per text.
ChunkSizes == (0 - 1)..MaxLen

\* The documents whose text changes during a session.
Edited == {"F1"}

\* The folder when the session starts: a two-character and a one-character
\* document.  SourceChange replaces a text by any other of Texts.
FirstFolder == [f \in Files |-> IF f = "F1" THEN <<"a", "b">> ELSE <<"b">>]

\* organic_results of a search, more of them than top_k: each result's link.
\* Whether a result has its link at all is found when the loop reaches it.
SearchResults == <<"U1", "U2", "U3", "U4">>

\* The paragraph text of a fetched page that has any.
PageText == <<"a">>

Queries == {"q1", "q2"}

WebPrompts == {"", "competitor pricing"}

NoInfo == "I am sorry, I do not have any information on that topic in the indexed files."

ModelText == "model text"

VARIABLES
  chunk_size,      \* index_drive_docs' chunk_size in this session
  docText,         \* the Drive folder: file id -> its extracted text now
  edits,           \* how many times the folder's content has changed
  index,           \* the Pinecone index: id -> (vector, metadata)
  indexed_chunks,  \* st.session_state['indexed_chunks']
  chunk_texts,     \* st.session_state['chunk_texts']
  pc,              \* the position of the running call, "idle" when none runs
  op,              \* the running call, or the last one: "none", "drive", "chat"
  outcome,         \* of that call: "none", "running", "returned", "raised"
  failure,         \* the remote call that raised, "none" when none did
  page,            \* index_drive_docs: the listing page (1-based)
  fidx,            \* index_drive_docs: the file of the page (1-based)
  k,               \* index_drive_docs: the iteration of the chunk loop (1-based)
  slices,          \* the chunks the chunk loop has cut from the current text
  total_chunks,    \* index_drive_docs' total_chunks
  embedCalls,      \* get_embedding calls the running indexing pass has made
  upsertCalls,     \* index.upsert calls the running indexing pass has made
  warm,            \* a Drive pass has returned over the folder as it is now
  startedWarm,     \* warm, when the running Drive pass started
  query,           \* chat_with_context's query
  include_web,     \* chat_with_context's include_web
  web_prompt,      \* chat_with_context's web_prompt
  results,         \* fetch_and_index_web: organic_results[:top_k]
  ridx,            \* fetch_and_index_web: the result being processed (1-based)
  total,           \* fetch_and_index_web's total
  log,             \* the remote calls chat_with_context has made, in order
  matches,         \* get_relevant_docs: res["matches"], the ids
  docs,            \* get_relevant_docs' result
  answer,          \* chat_with_context's return value, "" when it has returned none
  llmCalls         \* chat.completions.create calls of the running or last call

driveVars == <<page, fidx, k, slices, total_chunks, startedWarm>>
chatVars == <<query, include_web, web_prompt, results, ridx, total, log,
              matches, docs, answer, llmCalls>>
storeVars == <<index, indexed_chunks, chunk_texts>>
envVars == <<chunk_size, docText, edits>>

vars == <<chunk_size, docText, edits, index, indexed_chunks, chunk_texts, pc,
          op, outcome, failure, page, fidx, k, slices, total_chunks,
          embedCalls, upsertCalls, warm, startedWarm, query, include_web,
          web_prompt, results, ridx, total, log, matches, docs, answer,
          llmCalls>>

\* ------------------------------------------------------------ pure helpers

Min(a, b) == IF a < b THEN a ELSE b

\* Python's range(start, stop, step) for step # 0, as the sequence it yields.
PyRange(start, stop, step) ==
  LET n == IF step > 0
             THEN (IF stop <= start THEN 0
                   ELSE (stop - start + step - 1) \div step)
             ELSE (IF stop >= start THEN 0
                   ELSE (start - stop - step - 1) \div (0 - step))
  IN [j \in 1..n |-> start + (j - 1) * step]

\* Python's text[i:j] for 0 <= i.
PySlice(text, i, j) == SubSeq(text, i + 1, Min(j, Len(text)))

\* chunk_id = f"{file_id}_chunk_{i//chunk_size}"
ChunkId(file_id, i, size) == <<file_id, "_chunk_", i \div size>>

\* get_embedding's result: the vector the embedding model gives the text.
Embedding(text) == <<"ada-002", text>>

DriveRecord(name, i, size, chunk) ==
  [vec |-> Embedding(chunk),
   meta |-> [name |-> name, chunk_index |-> i \div size, source |-> "drive"]]

\* res.get('title', url)
Title(url) == <<"title of ", url>>

WebRecord(url, text) ==
  [vec |-> Embedding(text), meta |-> [name |-> Title(url), source |-> url]]

\* A chunking that cuts each chunk one character short.
ChunkOf_OneShort(text, i, size) == PySlice(text, i, i + size - 1)

\* chunk = text[i:i+chunk_size]
ChunkOf(text, i, size) == PySlice(text, i, i + size)

\* A pass that forgets to add the id to the ledger.
LedgerAdd_Forgets(ledger, id) == ledger

\* st.session_state['indexed_chunks'].add(chunk_id)
LedgerAdd(ledger, id) == ledger \cup {id}

\* index.upsert: insert or replace by id.
Upsert(idx, id, rec) == (id :> rec) @@ idx

Concat(ss) ==
  LET RECURSIVE cat(_)
      cat(n) == IF n = 0 THEN <<>> ELSE cat(n - 1) \o ss[n]
  IN cat(Len(ss))

\* ------------------------------------------------------------------- Init

\* A new session over a new index: the ledger is empty (lines 49-52), no call
\* has run, and the folder holds some documents.
Init ==
  /\ chunk_size \in ChunkSizes
  /\ docText = FirstFolder
  /\ edits = 0
  /\ index = <<>>
  /\ indexed_chunks = {}
  /\ chunk_texts = <<>>
  /\ pc = "idle"
  /\ op = "none"
  /\ outcome = "none"
  /\ failure = "none"
  /\ page = 1
  /\ fidx = 1
  /\ k = 1
  /\ slices = <<>>
  /\ total_chunks = 0
  /\ embedCalls = 0
  /\ upsertCalls = 0
  /\ warm = FALSE
  /\ startedWarm = FALSE
  /\ query = "q1"
  /\ include_web = FALSE
  /\ web_prompt = ""
  /\ results = <<>>
  /\ ridx = 1
  /\ total = 0
  /\ log = <<>>
  /\ matches = <<>>
  /\ docs = <<>>
  /\ answer = ""
  /\ llmCalls = 0

\* The running call is over: what stays is how it ended, the exception that
\* ended it, the answer it returned and the completions it asked for.  Its
\* locals, and the counts of the calls it made, are gone.
CallOver(how, kind, text, completions) ==
  /\ pc' = "idle"
  /\ outcome' = how
  /\ failure' = kind
  /\ answer' = text
  /\ llmCalls' = completions
  /\ page' = 1
  /\ fidx' = 1
  /\ k' = 1
  /\ slices' = <<>>
  /\ total_chunks' = 0
  /\ startedWarm' = FALSE
  /\ embedCalls' = 0
  /\ upsertCalls' = 0
  /\ query' = "q1"
  /\ include_web' = FALSE
  /\ web_prompt' = ""
  /\ results' = <<>>
  /\ ridx' = 1
  /\ total' = 0
  /\ log' = <<>>
  /\ matches' = <<>>
  /\ docs' = <<>>

\* An exception nobody catches: the running call ends where it is.
Raise(kind) == CallOver("raised", kind, "", 0)

\* ------------------------------------------------------ the content source

\* A document of the folder is edited between two calls: its text becomes
\* another text of Texts.
SourceChange ==
  /\ pc = "idle"
  /\ edits < MaxEdits
  /\ \E f \in Edited, t \in Texts :
       /\ t # docText[f]
       /\ docText' = [docText EXCEPT ![f] = t]
  /\ edits' = edits + 1
  /\ warm' = FALSE
  /\ UNCHANGED <<chunk_size, storeVars, pc, op, outcome, failure, driveVars,
                 embedCalls, upsertCalls, chatVars>>

\* --------------------------------------------------------- index_drive_docs

CurFile == Pages[page][fidx]

CurText == docText[CurFile]

\* range(0, len(text), chunk_size)
Offsets == PyRange(0, Len(CurText), chunk_size)

CurOffset == Offsets[k]

CurChunk == ChunkOf(CurText, CurOffset, chunk_size)

CurChunkId == ChunkId(CurFile, CurOffset, chunk_size)

\* The chunk loop has cut one more chunk.
NextSlices == Append(slices, CurChunk)

InChunkLoop == pc = "drive_chunk" /\ k <= Len(Offsets)

\* index_drive_docs(): lines 83-86.
DriveStart ==
  /\ pc = "idle"
  /\ op' = "drive"
  /\ outcome' = "running"
  /\ failure' = "none"
  /\ pc' = "drive_list"
  /\ page' = 1
  /\ fidx' = 1
  /\ k' = 1
  /\ slices' = <<>>
  /\ total_chunks' = 0
  /\ embedCalls' = 0
  /\ upsertCalls' = 0
  /\ startedWarm' = warm
  /\ answer' = ""
  /\ llmCalls' = 0
  /\ UNCHANGED <<envVars, storeVars, warm, query, include_web, web_prompt,
                 results, ridx, total, log, matches, docs>>

\* files().list(...).execute() returns the page.
DriveListPage ==
  /\ pc = "drive_list"
  /\ pc' = "drive_file"
  /\ fidx' = 1
  /\ UNCHANGED <<envVars, storeVars, op, outcome, failure, page, k, slices,
                 total_chunks, embedCalls, upsertCalls, warm, startedWarm,
                 chatVars>>

\* files().list(...).execute() raises.
DriveListFail ==
  /\ pc = "drive_list"
  /\ Raise("list")
  /\ UNCHANGED <<envVars, storeVars, op, warm>>

HasFile == pc = "drive_file" /\ fidx <= Len(Pages[page])

\* extract_text_from_drive_file raises (the download, the export or PdfReader).
DriveExtractFail ==
  /\ HasFile
  /\ Raise("extract")
  /\ UNCHANGED <<envVars, storeVars, op, warm>>

\* if not text: continue
DriveNoText ==
  /\ HasFile
  /\ CurText = <<>>
  /\ fidx' = fidx + 1
  /\ UNCHANGED <<envVars, storeVars, pc, op, outcome, failure, page, k, slices,
                 total_chunks, embedCalls, upsertCalls, warm, startedWarm,
                 chatVars>>

\* range(0, len(text), 0) raises ValueError.
DriveRangeError ==
  /\ HasFile
  /\ CurText # <<>>
  /\ chunk_size = 0
  /\ Raise("range")
  /\ UNCHANGED <<envVars, storeVars, op, warm>>

\* The chunk loop of the file starts.
DriveBeginChunks ==
  /\ HasFile
  /\ CurText # <<>>
  /\ chunk_size # 0
  /\ pc' = "drive_chunk"
  /\ k' = 1
  /\ slices' = <<>>
  /\ UNCHANGED <<envVars, storeVars, op, outcome, failure, page, fidx,
                 total_chunks, embedCalls, upsertCalls, warm, startedWarm,
                 chatVars>>

\* if chunk_id in indexed_chunks: continue
DriveChunkSkip ==
  /\ InChunkLoop
  /\ CurChunkId \in indexed_chunks
  /\ k' = k + 1
  /\ slices' = NextSlices
  /\ UNCHANGED <<envVars, storeVars, pc, op, outcome, failure, page, fidx,
                 total_chunks, embedCalls, upsertCalls, warm, startedWarm,
                 chatVars>>

\* get_embedding(chunk) raises.
DriveChunkEmbedFail ==
  /\ InChunkLoop
  /\ CurChunkId \notin indexed_chunks
  /\ Raise("embed")
  /\ UNCHANGED <<envVars, storeVars, op, warm>>

\* An upsert failure in a pass that adds the id to the ledger before it upserts.
DriveChunkUpsertFail_LedgerFirst ==
  /\ InChunkLoop
  /\ CurChunkId \notin indexed_chunks
  /\ chunk_texts' = (CurChunkId :> CurChunk) @@ chunk_texts
  /\ indexed_chunks' = LedgerAdd(indexed_chunks, CurChunkId)
  /\ Raise("upsert")
  /\ UNCHANGED <<envVars, index, op, warm>>

\* index.upsert raises: the index has not taken the record.
DriveChunkUpsertFail ==
  /\ InChunkLoop
  /\ CurChunkId \notin indexed_chunks
  /\ Raise("upsert")
  /\ UNCHANGED <<envVars, storeVars, op, warm>>

\* Lines 110-114: embed, upsert, record the text, add the id, count.
DriveChunkIndexed ==
  /\ InChunkLoop
  /\ CurChunkId \notin indexed_chunks
  /\ slices' = NextSlices
  /\ embedCalls' = embedCalls + 1
  /\ upsertCalls' = upsertCalls + 1
  /\ index' = Upsert(index, CurChunkId,
                     DriveRecord(FileName(CurFile), CurOffset, chunk_size, CurChunk))
  /\ chunk_texts' = (CurChunkId :> CurChunk) @@ chunk_texts
  /\ indexed_chunks' = LedgerAdd(indexed_chunks, CurChunkId)
  /\ total_chunks' = total_chunks + 1
  /\ k' = k + 1
  /\ UNCHANGED <<envVars, pc, op, outcome, failure, page, fidx, warm,
                 startedWarm, chatVars>>

\* The chunk loop is over: the next file.
DriveFileDone ==
  /\ pc = "drive_chunk"
  /\ k > Len(Offsets)
  /\ pc' = "drive_file"
  /\ fidx' = fidx + 1
  /\ UNCHANGED <<envVars, storeVars, op, outcome, failure, page, k, slices,
                 total_chunks, embedCalls, upsertCalls, warm, startedWarm,
                 chatVars>>

\* token = resp.get("nextPageToken"): the next page, or out of the loop.
DrivePageDone ==
  /\ pc = "drive_file"
  /\ fidx > Len(Pages[page])
  /\ IF page < Len(Pages)
       THEN pc' = "drive_list" /\ page' = page + 1
       ELSE pc' = "drive_stats" /\ page' = page
  /\ UNCHANGED <<envVars, storeVars, op, outcome, failure, fidx, k, slices,
                 total_chunks, embedCalls, upsertCalls, warm, startedWarm,
                 chatVars>>

\* index.describe_index_stats() raises.
DriveStatsFail ==
  /\ pc = "drive_stats"
  /\ Raise("stats")
  /\ UNCHANGED <<envVars, storeVars, op, warm>>

\* index_drive_docs returns.
DriveReturn ==
  /\ pc = "drive_stats"
  /\ CallOver("returned", "none", "", 0)
  /\ warm' = TRUE
  /\ UNCHANGED <<envVars, storeVars, op>>

DriveStep ==
  \/ DriveStart
  \/ DriveListPage
  \/ DriveListFail
  \/ DriveExtractFail
  \/ DriveNoText
  \/ DriveRangeError
  \/ DriveBeginChunks
  \/ DriveChunkSkip
  \/ DriveChunkEmbedFail
  \/ DriveChunkUpsertFail
  \/ DriveChunkIndexed
  \/ DriveFileDone
  \/ DrivePageDone
  \/ DriveStatsFail
  \/ DriveReturn

\* ------------------------------------------------------ fetch_and_index_web

\* A test that forgets the prompt.
WebWanted_IgnoresPrompt(iw, wp) == iw

\* if include_web and web_prompt
WebWanted(iw, wp) == iw /\ wp # ""

\* organic_results[:top_k]
Take(seq, n) == SubSeq(seq, 1, Min(n, Len(seq)))

\* chat_with_context(query, include_web, web_prompt): line 162.
ChatStart ==
  /\ pc = "idle"
  /\ \E q \in Queries, iw \in BOOLEAN, wp \in WebPrompts :
       /\ query' = q
       /\ include_web' = iw
       /\ web_prompt' = wp
       /\ IF WebWanted(iw, wp)
            THEN pc' = "web_search" /\ log' = <<"web_call">>
            ELSE pc' = "retrieve" /\ log' = <<>>
  /\ op' = "chat"
  /\ outcome' = "running"
  /\ failure' = "none"
  /\ results' = <<>>
  /\ ridx' = 1
  /\ total' = 0
  /\ matches' = <<>>
  /\ docs' = <<>>
  /\ answer' = ""
  /\ llmCalls' = 0
  /\ embedCalls' = 0
  /\ upsertCalls' = 0
  /\ UNCHANGED <<envVars, storeVars, warm, driveVars>>

\* The search request raises (requests.get, or r.json()).
WebSearchFail ==
  /\ pc = "web_search"
  /\ Raise("search")
  /\ UNCHANGED <<envVars, storeVars, op, warm>>

\* The search answers: lines 126-131.
WebSearch ==
  /\ pc = "web_search"
  /\ results' = Take(SearchResults, WebTopK)
  /\ ridx' = 1
  /\ total' = 0
  /\ pc' = "web_item"
  /\ UNCHANGED <<envVars, storeVars, op, outcome, failure, driveVars,
                 embedCalls, upsertCalls, warm, query, include_web, web_prompt,
                 log, matches, docs, answer, llmCalls>>

HasResult == pc = "web_item" /\ ridx <= Len(results)

CurUrl == results[ridx]

\* The id of a web page's record: the URL itself.
UrlId(url) == <<url>>

WebSkip ==
  /\ ridx' = ridx + 1
  /\ UNCHANGED <<envVars, storeVars, pc, op, outcome, failure, driveVars,
                 embedCalls, upsertCalls, warm, query, include_web, web_prompt,
                 results, total, log, matches, docs, answer, llmCalls>>

\* url = res.get("link"); if not url: continue
WebNoLink ==
  /\ HasResult
  /\ WebSkip

\* requests.get(url, timeout=10) raises.
WebFetchFail ==
  /\ HasResult
  /\ Raise("fetch")
  /\ UNCHANGED <<envVars, storeVars, op, warm>>

\* if not text: continue
WebNoText ==
  /\ HasResult
  /\ WebSkip

\* get_embedding(text) raises.
WebEmbedFail ==
  /\ HasResult
  /\ Raise("embed")
  /\ UNCHANGED <<envVars, storeVars, op, warm>>

\* index.upsert raises: the index has not taken the record.
WebUpsertFail ==
  /\ HasResult
  /\ Raise("upsert")
  /\ UNCHANGED <<envVars, storeVars, op, warm>>

\* Lines 141-144: embed the page, upsert it under its URL, count.
WebUpserted ==
  /\ HasResult
  /\ embedCalls' = embedCalls + 1
  /\ upsertCalls' = upsertCalls + 1
  /\ index' = Upsert(index, UrlId(CurUrl), WebRecord(CurUrl, PageText))
  /\ total' = total + 1
  /\ ridx' = ridx + 1
  /\ UNCHANGED <<envVars, indexed_chunks, chunk_texts, pc, op, outcome,
                 failure, driveVars, warm, query, include_web, web_prompt,
                 results, log, matches, docs, answer, llmCalls>>

\* return total
WebReturn ==
  /\ pc = "web_item"
  /\ ridx > Len(results)
  /\ log' = Append(log, "web_return")
  /\ pc' = "retrieve"
  /\ results' = <<>>
  /\ ridx' = 1
  /\ UNCHANGED <<envVars, storeVars, op, outcome, failure, driveVars,
                 embedCalls, upsertCalls, warm, query, include_web, web_prompt,
                 total, matches, docs, answer, llmCalls>>

WebStep ==
  \/ WebSearchFail
  \/ WebSearch
  \/ WebNoLink
  \/ WebFetchFail
  \/ WebNoText
  \/ WebEmbedFail
  \/ WebUpsertFail
  \/ WebUpserted
  \/ WebReturn

\* -------------------------------------- get_relevant_docs, chat_with_context

\* Every id a record can have, chunks first.
ChunkIdSeq ==
  [j \in 1..(2 * MaxLen) |->
     <<IF j <= MaxLen THEN "F1" ELSE "F2", "_chunk_", (j - 1) % MaxLen>>]

UrlIdSeq == <<UrlId("U1"), UrlId("U2"), UrlId("U3")>>

Reverse(seq) == [j \in 1..Len(seq) |-> seq[Len(seq) + 1 - j]]

\* The similarity order of the records for a query: q1 is nearest to the
\* Drive chunks, q2 to the web pages.
Ranking(q) ==
  IF q = "q1" THEN ChunkIdSeq \o UrlIdSeq ELSE Reverse(ChunkIdSeq \o UrlIdSeq)

\* index.query(vector, top_k): the ids of the top_k nearest records.
QueryMatches(idx, q, top_k) ==
  Take(SelectSeq(Ranking(q), LAMBDA id : id \in DOMAIN idx), top_k)

\* chunk_texts.get(id, '')
TextOf(texts, id) == IF id \in DOMAIN texts THEN texts[id] ELSE <<>>

\* Lines 152-157: the texts of the matches that have one.
RelevantDocs(ms, texts) ==
  LET kept == SelectSeq(ms, LAMBDA id : TextOf(texts, id) # <<>>)
  IN [j \in 1..Len(kept) |-> TextOf(texts, kept[j])]

\* A test that never finds docs empty.
NoDocs_Never(ds) == FALSE

\* if not docs
NoDocs(ds) == ds = <<>>

\* get_embedding(query) raises.
ChatEmbedFail ==
  /\ pc = "retrieve"
  /\ Raise("query_embed")
  /\ UNCHANGED <<envVars, storeVars, op, warm>>

\* emb = get_embedding(query)
ChatEmbedQuery ==
  /\ pc = "retrieve"
  /\ log' = Append(log, "embed_query")
  /\ pc' = "query"
  /\ UNCHANGED <<envVars, storeVars, op, outcome, failure, driveVars,
                 embedCalls, upsertCalls, warm, query, include_web, web_prompt,
                 results, ridx, total, matches, docs, answer, llmCalls>>

\* index.query raises.
ChatQueryFail ==
  /\ pc = "query"
  /\ Raise("query")
  /\ UNCHANGED <<envVars, storeVars, op, warm>>

\* Lines 151-157: the query answers, and docs is built from its matches.
ChatQuery ==
  /\ pc = "query"
  /\ log' = Append(log, "index_query")
  /\ matches' = QueryMatches(index, query, RetrieveTopK)
  /\ docs' = RelevantDocs(matches', chunk_texts)
  /\ pc' = "assemble"
  /\ UNCHANGED <<envVars, storeVars, op, outcome, failure, driveVars,
                 embedCalls, upsertCalls, warm, query, include_web, web_prompt,
                 results, ridx, total, answer, llmCalls>>

\* Lines 165-166: the fixed answer.
ChatNoInfo ==
  /\ pc = "assemble"
  /\ NoDocs(docs)
  /\ CallOver("returned", "none", NoInfo, llmCalls)
  /\ UNCHANGED <<envVars, storeVars, op, warm>>

\* chat.completions.create raises.
ChatCompletionFail ==
  /\ pc = "assemble"
  /\ ~NoDocs(docs)
  /\ CallOver("raised", "completion", "", llmCalls + 1)
  /\ UNCHANGED <<envVars, storeVars, op, warm>>

\* Lines 167-184: the model's answer over the context.
ChatAnswer ==
  /\ pc = "assemble"
  /\ ~NoDocs(docs)
  /\ CallOver("returned", "none", ModelText, llmCalls + 1)
  /\ UNCHANGED <<envVars, storeVars, op, warm>>

ChatStep ==
  \/ ChatStart
  \/ ChatEmbedFail
  \/ ChatEmbedQuery
  \/ ChatQueryFail
  \/ ChatQuery
  \/ ChatNoInfo
  \/ ChatCompletionFail
  \/ ChatAnswer

Next == SourceChange \/ DriveStep \/ WebStep \/ ChatStep

Spec == Init /\ [][Next]_vars

\* ------------------------------------------ the chunk loop, taken alone

\* index_drive_docs at the top of the chunk loop of F1, over any non-empty text
\* and any positive chunk_size.
InitChunk ==
  /\ chunk_size \in 1..MaxChunkStep
  /\ \E t \in SeqsUpTo(Chars, MaxChunkText) \ {<<>>} :
       docText = [f \in Files |-> IF f = "F1" THEN t ELSE <<>>]
  /\ edits = 0
  /\ index = <<>>
  /\ indexed_chunks = {}
  /\ chunk_texts = <<>>
  /\ pc = "drive_chunk"
  /\ op = "drive"
  /\ outcome = "running"
  /\ failure = "none"
  /\ page = 1
  /\ fidx = 1
  /\ k = 1
  /\ slices = <<>>
  /\ total_chunks = 0
  /\ embedCalls = 0
  /\ upsertCalls = 0
  /\ warm = FALSE
  /\ startedWarm = FALSE
  /\ query = "q1"
  /\ include_web = FALSE
  /\ web_prompt = ""
  /\ results = <<>>
  /\ ridx = 1
  /\ total = 0
  /\ log = <<>>
  /\ matches = <<>>
  /\ docs = <<>>
  /\ answer = ""
  /\ llmCalls = 0

\* Lines 105-107: one iteration cuts its chunk.
ChunkStep ==
  /\ InChunkLoop
  /\ slices' = NextSlices
  /\ k' = k + 1
  /\ UNCHANGED <<envVars, storeVars, pc, op, outcome, failure, page, fidx,
                 total_chunks, embedCalls, upsertCalls, warm, startedWarm,
                 chatVars>>

SpecChunk == InitChunk /\ [][ChunkStep]_vars

\* ---------------------------------------------------------------- claims

InLog(e) == \E i \in DOMAIN log : log[i] = e

Count(e) == Cardinality({i \in DOMAIN log : log[i] = e})

ChunkLoopOver == pc = "drive_chunk" /\ k > Len(Offsets)

\* The chunks of every document of the folder as it is now.
\* as <<file id, offset>>, for a chunk_size that is not zero.
FolderChunks ==
  {fi \in Files \X (0..MaxLen) :
     LET offsets == PyRange(0, Len(docText[fi[1]]), chunk_size)
     IN \E j \in DOMAIN offsets : offsets[j] = fi[2]}

\* C1: a Drive pass that starts after a pass has returned over the same folder
\* makes no embedding call and no upsert, and none of its steps changes the
\* index, the ledger or the stored texts.
C1_SecondPassIdle ==
  /\ []((op = "drive" /\ startedWarm) =>
          (embedCalls = 0 /\ upsertCalls = 0 /\ total_chunks = 0))
  /\ [][((op = "drive" /\ startedWarm) \/ (op' = "drive" /\ startedWarm')) =>
          (index' = index /\ indexed_chunks' = indexed_chunks
           /\ chunk_texts' = chunk_texts)]_vars

\* A second pass over the unchanged folder has gone through every document,
\* with three chunks in the ledger, and is about to return.
C1_Witness ==
  /\ op = "drive"
  /\ startedWarm
  /\ pc = "drive_stats"
  /\ embedCalls = 0
  /\ Cardinality(indexed_chunks) = 3

\* C2: for a positive chunk_size the chunks cut so far are a prefix of the text
\* when put end to end in order, each is at most chunk_size long, each but the
\* last is exactly chunk_size long, chunk j has ordinal j - 1, and at the end of
\* the loop the chunks put end to end are the text.
C2_ChunkRoundTrip ==
  (pc = "drive_chunk" /\ chunk_size > 0) =>
    /\ \A j \in 1..Len(slices) :
         /\ Len(slices[j]) >= 1
         /\ Len(slices[j]) <= chunk_size
         /\ j < Len(slices) => Len(slices[j]) = chunk_size
         /\ ChunkId(CurFile, Offsets[j], chunk_size) = <<CurFile, "_chunk_", j - 1>>
    /\ Len(Concat(slices)) <= Len(CurText)
    /\ Concat(slices) = SubSeq(CurText, 1, Len(Concat(slices)))
    /\ ChunkLoopOver => Concat(slices) = CurText

\* Seven characters cut by three: chunks of 3, 3 and 1 characters.
C2_Witness ==
  /\ ChunkLoopOver
  /\ Len(CurText) = 7
  /\ chunk_size = 3
  /\ Len(slices) = 3
  /\ Len(slices[1]) = 3
  /\ Len(slices[2]) = 3
  /\ Len(slices[3]) = 1

\* C3: a fetch or an extraction that fails never ends the pass it is in.
C3_FetchFailureSkipped ==
  (failure \in {"fetch", "extract"}) => outcome # "raised"

\* C4: an embedding call or an upsert that fails in an indexing pass never
\* ends the pass.
C4_EmbedFailureSkipped ==
  (failure \in {"embed", "upsert"}) => outcome # "raised"

\* The index has answered the query of the running chat_with_context.
Retrieved == op = "chat" /\ pc = "assemble"

\* C5: get_relevant_docs returns as many texts as the index returned matches.
C5_OneTextPerMatch == Retrieved => Len(docs) = Len(matches)

\* C6: when the index returns no match, chat_with_context returns the fixed
\* answer, and it has called the language model neither before nor in
\* returning.
C6_EmptyRetrieval ==
  /\ []((op = "chat" /\ pc # "idle") => llmCalls = 0)
  /\ [][(Retrieved /\ matches = <<>>) =>
          (outcome' = "returned" /\ answer' = NoInfo /\ llmCalls' = 0)]_vars

\* A chat_with_context over an empty index, which has no match to return, has
\* returned the fixed answer.
C6_Witness ==
  /\ op = "chat"
  /\ pc = "idle"
  /\ outcome = "returned"
  /\ answer = NoInfo
  /\ llmCalls = 0
  /\ DOMAIN index = {}

\* C7: with include_web set and a non-empty web_prompt, the query is embedded
\* and the index queried only after the one fetch_and_index_web call has
\* returned; otherwise fetch_and_index_web is not called.
C7_WebBeforeRetrieval ==
  (op = "chat" /\ pc # "idle") =>
    IF include_web /\ web_prompt # ""
      THEN /\ Count("web_call") = 1
           /\ log[1] = "web_call"
           /\ Count("web_return") <= 1
           /\ (InLog("embed_query") \/ InLog("index_query")) =>
                (Len(log) >= 3 /\ log[2] = "web_return" /\ log[3] = "embed_query")
      ELSE Count("web_call") = 0 /\ Count("web_return") = 0

\* A chat_with_context with web context has queried the index after the web pass
\* upserted a page.
C7_Witness ==
  /\ Retrieved
  /\ include_web
  /\ web_prompt # ""
  /\ log[2] = "web_return"
  /\ total >= 1

\* The ledger and the index hold the folder's chunks as they are now.
FolderIndexed ==
  \A fi \in FolderChunks :
    LET id == ChunkId(fi[1], fi[2], chunk_size)
        chunk == ChunkOf(docText[fi[1]], fi[2], chunk_size)
    IN /\ id \in indexed_chunks
       /\ id \in DOMAIN chunk_texts
       /\ chunk_texts[id] = chunk
       /\ id \in DOMAIN index
       /\ index[id].vec = Embedding(chunk)

\* C8: after a Drive pass has returned, the record and the stored text under
\* each chunk id of the folder are those of the text as it is now.
C8_Superseded ==
  (op = "drive" /\ pc = "idle" /\ outcome = "returned" /\ warm /\ chunk_size > 0)
    => FolderIndexed

\* C9: a Drive pass with a chunk_size of zero or less never returns normally.
C9_InvalidChunkSize ==
  chunk_size <= 0 => ~(op = "drive" /\ outcome = "returned")

\* C10: every id of the ledger has a record in the index and a non-empty stored
\* text; the ledger never loses an id; the chunk whose embedding or upsert
\* raised is not in the ledger; and a pass that returns leaves every chunk id of
\* the folder in the ledger, so that a chunk that failed before has been retried.
C10_LedgerConsistent ==
  /\ [](\A id \in indexed_chunks :
          /\ id \in DOMAIN index
          /\ id \in DOMAIN chunk_texts
          /\ chunk_texts[id] # <<>>)
  /\ []((op = "drive" /\ pc = "idle" /\ outcome = "returned" /\ warm
         /\ chunk_size > 0) =>
          \A fi \in FolderChunks :
            ChunkId(fi[1], fi[2], chunk_size) \in indexed_chunks)
  /\ [][/\ indexed_chunks \subseteq indexed_chunks'
        /\ (op = "drive" /\ outcome = "running" /\ outcome' = "raised"
            /\ failure' \in {"embed", "upsert"}) =>
             CurChunkId \notin indexed_chunks']_vars

\* A Drive pass has stopped at a failed embedding with part of the folder in
\* the ledger and part of it not.
C10_Witness ==
  /\ op = "drive"
  /\ outcome = "raised"
  /\ failure = "embed"
  /\ indexed_chunks # {}
  /\ chunk_size > 0
  /\ \E fi \in FolderChunks : ChunkId(fi[1], fi[2], chunk_size) \notin indexed_chunks

====
